---- MODULE Spec2Model ----
(***************************************************************************)
(* A model of src/src/encoder.rs: the Encoder wrapper around the native    *)
(* x264 handle, and the Flush drain sequence that consumes it.             *)
(*                                                                         *)
(* The native engine is a black box to the wrapper.  Its state is the list *)
(* of delayed (buffered) frames, a queued intra refresh, the number of     *)
(* close calls it has received and a pipeline stall counter.  What it      *)
(* answers to a call is an input of the action, drawn with \E from the     *)
(* outcomes a submission can have (EncodeOutcomes, HeaderOutcomes).        *)
(***************************************************************************)
EXTENDS Integers, Sequences, FiniteSets, TLC

\* ------------------------------------------------------------- bounds
\* Timestamps the caller may pass are 0 .. MaxPts.
MaxPts == 1
\* The caller submits at most MaxFrames frames before flushing or dropping.
MaxFrames == 2
\* The engine never buffers more than MaxDelay frames.
MaxDelay == 1
\* A drain call may report "no output yet" at most MaxStall times in a row.
MaxStall == 1

Pts == 0 .. MaxPts

\* The shapes an image can have, and the two an engine is set up with here.
Widths == {640, 1920}
Heights == {480, 1080}
Encodings == {"I420", "RGB"}
Images == [w : Widths, h : Heights, csp : Encodings]
Snapshots == {[w |-> 640, h |-> 480, csp |-> "I420"],
              [w |-> 1920, h |-> 1080, csp |-> "RGB"]}

\* What an i64 that was never written may hold: any value.  The two ends of
\* the timestamp range stand for a value that collides with a frame's.
Garbage == {0, MaxPts}

\* Values that stand for "absent".
NoPts == -1
NoImage == [w |-> 0, h |-> 0, csp |-> "none"]
NoData == [len |-> -1]
NULL == [pts |-> NoPts, img |-> NoImage]

VARIABLES
    owners,     \* the live values that own the native handle: "Encoder", "Flush"
    params,     \* Encoder.params: the snapshot [w, h, csp] taken by from_raw
    delayed,    \* engine: pts of the frames it buffers, in submission order
    stall,      \* engine: consecutive drain calls that gave no output
    refresh,    \* engine: an intra refresh is queued
    closeCount, \* engine: number of x264_encoder_close calls received
    views,      \* Data views the caller can still read: "fresh" and/or "stale"
    subs,       \* history: pts of every frame handed to a submission call
    out,        \* history: out[p] = Pictures with pts p returned with bytes
    errs,       \* history: where Err was returned: "submit" and/or "drain"
    flushed,    \* history: flush() has been called
    exhausted,  \* history: some next() has returned None
    last        \* history: the last operation, its inputs, calls and result

vars == <<owners, params, delayed, stall, refresh, closeCount, views, subs,
          out, errs, flushed, exhausted, last>>

engine == <<delayed, stall, refresh, closeCount>>

\* ------------------------------------------------------------- helpers
Remove(s, i) == SubSeq(s, 1, i - 1) \o SubSeq(s, i + 1, Len(s))

Flip(b) == 1 - b

\* The views a caller still holds once the engine has written new output
\* over its buffer: whatever was readable is now stale.
Age(v) == IF v = {} THEN {} ELSE {"stale"}

\* One native call, as the engine sees it.
Call(fn, pic) == [fn |-> fn, pic |-> pic]

\* The record of one operation before its fields are filled in.  par flips on
\* every operation, so that two equal operations in a row are still two steps.
BlankOp(name, recv) ==
    [op |-> name, recv |-> recv, pts |-> NoPts, img |-> NoImage,
     calls |-> <<>>, status |-> 0, read |-> -1, nal |-> -1, raw |-> NoPts,
     held |-> {}, res |-> "Unit", data |-> NoData, pic |-> NoPts, ret |-> 0,
     par |-> Flip(last.par)]

\* ------------------------------------------------------- native engine
\* x264_encoder_delayed_frames: a pure query of the number of buffered frames.
x264_encoder_delayed_frames(d) == Len(d)

\* x264_encoder_encode(h, &nal, &len, pic_in, &pic_out): what the engine may
\* answer and the state it is left in.  pic_in = NULL is a drain call.
\*   - a negative status, the input refused and nothing else changed;
\*   - a negative status after a buffered frame was taken for encoding (that
\*     frame is gone: no output accompanies an error);
\*   - status 0 and no bytes: the output is deferred (or there is nothing
\*     to encode).  pic_out is then not written, and holds whatever the
\*     memory held.  A drain call with frames buffered defers at most
\*     MaxStall times in a row;
\*   - a positive status, one buffered frame encoded into the output buffer,
\*     pic_out describing it.  Decode order may differ from submission order.
EncodeOutcomes(d, st, pic_in) ==
    LET d1 == IF pic_in = NULL THEN d ELSE Append(d, pic_in.pts)
        refused == {[status |-> -1, len |-> 0, raw |-> NoPts, d |-> d, st |-> st]}
        failed == {[status |-> -1, len |-> 0, raw |-> NoPts,
                    d |-> Remove(d1, i), st |-> st] : i \in 1 .. Len(d1)}
        deferred ==
            IF Len(d1) <= MaxDelay /\ (pic_in # NULL \/ d = <<>> \/ st < MaxStall)
            THEN {[status |-> 0, len |-> 0, raw |-> g, d |-> d1,
                   st |-> IF pic_in = NULL /\ d # <<>> THEN st + 1 ELSE st] :
                  g \in Garbage}
            ELSE {}
        emitted == {[status |-> 1, len |-> 1, raw |-> d1[i],
                     d |-> Remove(d1, i), st |-> 0] : i \in 1 .. Len(d1)}
    IN  refused \cup failed \cup deferred \cup emitted

\* x264_encoder_headers(h, &nal, &len): a negative status, or the header NAL
\* units (len of them) written to the output buffer.
HeaderOutcomes ==
    {[status |-> -1, len |-> 0], [status |-> 0, len |-> 0],
     [status |-> 1, len |-> 1]}

\* x264_encoder_close(h).
x264_encoder_close(c) == c + 1

\* ------------------------------------------------------------- wrapper
\* width() reading the wrong field of the snapshot.
WidthReadsHeight(p) == p.h

\* Encoder::width, height, encoding: reads of the snapshot.
Width(p) == p.w
Height(p) == p.h
Encoding(p) == p.csp

\* Encoder::encode without its third assert: the colorspace goes unchecked.
CheckedPreconditionNoEncoding(image, p) ==
    /\ image.w = p.w
    /\ image.h = p.h

\* Encoder::encode with the width and height asserts crossed over.
CheckedPreconditionCrossed(image, p) ==
    /\ image.w = p.h
    /\ image.h = p.w
    /\ image.csp = p.csp

\* The three assert_eq! of Encoder::encode.
CheckedPrecondition(image, p) ==
    /\ image.w = Width(p)
    /\ image.h = Height(p)
    /\ image.csp = Encoding(p)

\* A picture set up with its timestamp left at the initial zero.
PictureInitZeroPts(pts, image) == [pts |-> 0, img |-> image]

\* The input picture built by encode_unchecked: x264_picture_init, then
\* i_pts and img are set from the arguments.
PictureInit(pts, image) == [pts |-> pts, img |-> image]

\* The error test written `err <= 0`: a deferred output is taken for an error.
EncodeReturnZeroIsError(err, len, raw) ==
    IF err <= 0
    THEN [res |-> "Err", data |-> NoData, pic |-> NoPts]
    ELSE [res |-> "Ok", data |-> [len |-> len], pic |-> raw]

\* The tail of encode_unchecked and of Flush::next: err < 0 is the error,
\* anything else is Ok with the Data and Picture the call wrote.
EncodeReturn(err, len, raw) ==
    IF err < 0
    THEN [res |-> "Err", data |-> NoData, pic |-> NoPts]
    ELSE [res |-> "Ok", data |-> [len |-> len], pic |-> raw]

\* headers() building its Data with a length of zero.
HeadersReturnEmpty(err, len) ==
    IF err < 0
    THEN [res |-> "Err", data |-> NoData]
    ELSE [res |-> "Ok", data |-> [len |-> 0]]

\* The tail of Encoder::headers.
HeadersReturn(err, len) ==
    IF err < 0
    THEN [res |-> "Err", data |-> NoData]
    ELSE [res |-> "Ok", data |-> [len |-> len]]

\* The early return taken one frame too soon.
DrainDoneEarly(n) == n <= 1

\* The early return that is never taken.
DrainDoneNegative(n) == n < 0

\* Flush::next's early return: the drain is over when the query reads zero.
DrainDone(n) == n = 0

\* A Data view that does not borrow the Encoder: it outlives the next call.
BorrowMutKeeps(v) == v

\* A call through `&mut self`: no borrow taken from the Encoder earlier can
\* be live across it, so every Data view handed out before is dead.
BorrowMut(v) == {}

\* A shared borrow that could coexist with an outstanding Data view.
BorrowSharedKeeps(v) == v

\* A call through `&self`: a Data view holds the exclusive borrow of the
\* Encoder it came from, so none can be live across a shared borrow either.
BorrowShared(v) == {}

\* `self` by value (flush, and dropping): a borrowed value cannot be moved.
MoveOut(v) == {}

\* The views readable after an output-producing call: the ones that outlived
\* the call, written over by it, and the one the call returned.
ViewsAfter(kept, res) == Age(kept) \cup (IF res = "Ok" THEN {"fresh"} ELSE {})

\* The caller's tally of Pictures that came with bytes.
Tally(o, r) ==
    IF r.res = "Ok" /\ r.data.len > 0 /\ r.pic \in Pts
    THEN [o EXCEPT ![r.pic] = @ + 1]
    ELSE o

\* ---------------------------------------------------------------- Init
\* Encoder::from_raw: the handle is owned by the Encoder and the snapshot is
\* what x264_encoder_parameters reported.
Init ==
    /\ owners = {"Encoder"}
    /\ params \in Snapshots
    /\ delayed = <<>>
    /\ stall = 0
    /\ refresh = FALSE
    /\ closeCount = 0
    /\ views = {}
    /\ subs = <<>>
    /\ out = [p \in Pts |-> 0]
    /\ errs = {}
    /\ flushed = FALSE
    /\ exhausted = FALSE
    /\ last = [op |-> "from_raw", recv |-> "owned", pts |-> NoPts,
               img |-> NoImage,
               calls |-> <<Call("x264_encoder_parameters", NULL)>>,
               status |-> 0, read |-> -1, nal |-> -1, raw |-> NoPts,
               held |-> {}, res |-> "Unit", data |-> NoData, pic |-> NoPts,
               ret |-> 0, par |-> 0]

\* ------------------------------------------------------------- actions
\* A flush that builds the Flush from a copy of the handle and leaves the
\* Encoder alive.
MoveCopies(os) == os \cup {"Flush"}

\* Encoder::flush(self): `Flush { encoder: self }` moves the Encoder into the
\* Flush, which becomes the one owner.
Move(os) == (os \ {"Encoder"}) \cup {"Flush"}

\* A drain step that hands the engine a picture instead of a null pointer.
DrainPictureNotNull == [pts |-> 0, img |-> NoImage]

\* The picture Flush::next hands to x264_encoder_encode: ptr::null_mut().
DrainPicture == NULL

\* A submission that calls the engine again when the first call failed.
AttemptRetried(d, st, pic) ==
    LET one == Call("x264_encoder_encode", pic)
    IN  UNION {IF o.status < 0
               THEN {[calls |-> <<one, one>>, o |-> o2] :
                        o2 \in EncodeOutcomes(o.d, o.st, pic)}
               ELSE {[calls |-> <<one>>, o |-> o]} :
               o \in EncodeOutcomes(d, st, pic)}

\* The one x264_encoder_encode of encode_unchecked and of Flush::next: the
\* call made and what the engine answered.
Attempt(d, st, pic) ==
    {[calls |-> <<Call("x264_encoder_encode", pic)>>, o |-> o] :
        o \in EncodeOutcomes(d, st, pic)}

\* A Flush that remembers a failed step and ends the drain after it.
FusedAfterErr == last.op = "next" /\ last.res = "Err"

\* What a Flush remembers of its earlier steps: nothing, its only field is
\* the Encoder.
Fused == FALSE

\* Encoder::encode_unchecked(&mut self, pts, image), under the name it was
\* called by: one x264_encoder_encode with the picture built from the
\* arguments.
Submit(name, pts, image) ==
    \E a \in Attempt(delayed, stall, PictureInit(pts, image)) :
        LET o == a.o
            r == EncodeReturn(o.status, o.len, o.raw)
            held == BorrowMut(views)
        IN  /\ delayed' = o.d
            /\ stall' = o.st
            /\ refresh' = (refresh /\ o.status <= 0)
            /\ views' = ViewsAfter(held, r.res)
            /\ subs' = Append(subs, pts)
            /\ out' = Tally(out, r)
            /\ errs' = (IF r.res = "Err" THEN errs \cup {"submit"} ELSE errs)
            /\ last' = [BlankOp(name, "mut") EXCEPT
                          !.pts = pts, !.img = image,
                          !.calls = a.calls,
                          !.status = o.status, !.nal = o.len, !.raw = o.raw,
                          !.held = held, !.res = r.res, !.data = r.data,
                          !.pic = r.pic]
            /\ UNCHANGED <<owners, params, closeCount, flushed, exhausted>>

\* Encoder::encode(&mut self, pts, image): the asserts, then encode_unchecked.
\* A failed assert panics: nothing after it runs.
EncodeAt(pts, image) ==
    IF CheckedPrecondition(image, params)
    THEN Submit("encode", pts, image)
    ELSE /\ views' = BorrowMut(views)
         /\ last' = [BlankOp("encode", "mut") EXCEPT
                       !.pts = pts, !.img = image, !.res = "Panic"]
         /\ UNCHANGED <<owners, params, delayed, stall, refresh,
                        closeCount, subs, out, errs, flushed, exhausted>>

Encode ==
    /\ "Encoder" \in owners
    /\ Len(subs) < MaxFrames
    /\ \E pts \in Pts, image \in Images : EncodeAt(pts, image)

\* Encoder::encode_unchecked called directly.  With an image that does not
\* match the snapshot the engine reads planes of the wrong shape: what it
\* answers is still one of EncodeOutcomes.
EncodeUnchecked ==
    /\ "Encoder" \in owners
    /\ Len(subs) < MaxFrames
    /\ \E pts \in Pts, image \in Images :
        Submit("encode_unchecked", pts, image)

\* Encoder::headers(&mut self): one x264_encoder_headers.
Headers ==
    /\ "Encoder" \in owners
    /\ \E o \in HeaderOutcomes :
        LET r == HeadersReturn(o.status, o.len)
            held == BorrowMut(views)
        IN  /\ views' = ViewsAfter(held, r.res)
            /\ last' = [BlankOp("headers", "mut") EXCEPT
                          !.calls = <<Call("x264_encoder_headers", NULL)>>,
                          !.status = o.status, !.nal = o.len, !.held = held,
                          !.res = r.res, !.data = r.data]
            /\ UNCHANGED <<owners, params, delayed, stall, refresh,
                           closeCount, subs, out, errs, flushed, exhausted>>

\* Encoder::intra_refresh(&self): one x264_encoder_intra_refresh, which
\* queues a refresh in the engine.  Nothing is returned.
IntraRefresh ==
    /\ "Encoder" \in owners
    /\ refresh' = TRUE
    /\ views' = BorrowShared(views)
    /\ last' = [BlankOp("intra_refresh", "shared") EXCEPT
                  !.calls = <<Call("x264_encoder_intra_refresh", NULL)>>,
                  !.held = BorrowShared(views)]
    /\ UNCHANGED <<owners, params, delayed, stall, closeCount, subs, out,
                   errs, flushed, exhausted>>

\* Encoder::width(&self), height(&self), encoding(&self).
Query(name, value) ==
    /\ "Encoder" \in owners
    /\ views' = BorrowShared(views)
    /\ last' = [BlankOp(name, "shared") EXCEPT !.ret = value]
    /\ UNCHANGED <<owners, params, delayed, stall, refresh, closeCount,
                   subs, out, errs, flushed, exhausted>>

GetWidth == Query("width", Width(params))

GetHeight == Query("height", Height(params))

GetEncoding == Query("encoding", Encoding(params))

\* Encoder::flush(self): the Encoder moves into the Flush.  No native call.
Flush ==
    /\ "Encoder" \in owners
    /\ owners' = Move(owners)
    /\ flushed' = TRUE
    /\ views' = MoveOut(views)
    /\ last' = BlankOp("flush", "owned")
    /\ UNCHANGED <<params, delayed, stall, refresh, closeCount, subs, out,
                   errs, exhausted>>

\* Flush::next(&mut self): the delayed-frame query; None when it reads zero,
\* else one x264_encoder_encode with a null picture, wrapped in Some.
FlushNext ==
    /\ "Flush" \in owners
    /\ LET n == x264_encoder_delayed_frames(delayed)
           held == BorrowMut(views)
           query == Call("x264_encoder_delayed_frames", NULL)
       IN  IF DrainDone(n) \/ Fused
           THEN /\ views' = held
                /\ exhausted' = TRUE
                /\ last' = [BlankOp("next", "mut") EXCEPT
                              !.calls = <<query>>, !.read = n,
                              !.held = held, !.res = "None"]
                /\ UNCHANGED <<owners, params, delayed, stall, refresh,
                               closeCount, subs, out, errs, flushed>>
           ELSE \E a \in Attempt(delayed, stall, DrainPicture) :
                LET o == a.o
                    r == EncodeReturn(o.status, o.len, o.raw)
                IN  /\ delayed' = o.d
                    /\ stall' = o.st
                    /\ refresh' = (refresh /\ o.status <= 0)
                    /\ views' = ViewsAfter(held, r.res)
                    /\ out' = Tally(out, r)
                    /\ errs' = (IF r.res = "Err" THEN errs \cup {"drain"}
                                ELSE errs)
                    /\ last' = [BlankOp("next", "mut") EXCEPT
                                  !.calls = <<query>> \o a.calls,
                                  !.read = n, !.status = o.status,
                                  !.nal = o.len, !.raw = o.raw,
                                  !.held = held, !.res = r.res,
                                  !.data = r.data, !.pic = r.pic]
                    /\ UNCHANGED <<owners, params, closeCount, subs, flushed,
                                   exhausted>>

\* A teardown that drains the engine before closing it.
DropGlueDrains(who, name) ==
    /\ owners' = owners \ {who}
    /\ closeCount' = x264_encoder_close(closeCount)
    /\ views' = MoveOut(views)
    /\ delayed' = <<>>
    /\ last' = [BlankOp(name, "mut") EXCEPT
                  !.calls = <<Call("x264_encoder_encode", NULL),
                              Call("x264_encoder_close", NULL)>>]
    /\ UNCHANGED <<params, stall, refresh, subs, out, errs, flushed,
                   exhausted>>

\* Drop for Encoder: x264_encoder_close(self.raw).  who is the value that
\* went out of scope and so owns nothing any more.
DropGlue(who, name) ==
    /\ owners' = owners \ {who}
    /\ closeCount' = x264_encoder_close(closeCount)
    /\ views' = MoveOut(views)
    /\ last' = [BlankOp(name, "mut") EXCEPT
                  !.calls = <<Call("x264_encoder_close", NULL)>>]
    /\ UNCHANGED <<params, delayed, stall, refresh, subs, out, errs, flushed,
                   exhausted>>

\* An Encoder that was never flushed goes out of scope (also on unwinding).
DropEncoder ==
    /\ "Encoder" \in owners
    /\ DropGlue("Encoder", "drop")

\* A Flush goes out of scope: its only field, the Encoder, is dropped.
DropFlush ==
    /\ "Flush" \in owners
    /\ DropGlue("Flush", "drop_flush")

\* The caller is done with the views it holds.
Consume ==
    /\ views # {}
    /\ views' = {}
    /\ UNCHANGED <<owners, params, delayed, stall, refresh, closeCount, subs,
                   out, errs, flushed, exhausted, last>>

Next ==
    \/ Encode
    \/ EncodeUnchecked
    \/ Headers
    \/ IntraRefresh
    \/ GetWidth
    \/ GetHeight
    \/ GetEncoding
    \/ Flush
    \/ FlushNext
    \/ DropEncoder
    \/ DropFlush
    \/ Consume

Spec == Init /\ [][Next]_vars

\* The documented drain loop, `while let Some(result) = flush.next()`, calls
\* next() again for as long as the Flush is there.
LoopSpec == Spec /\ WF_vars(FlushNext)

\* ------------------------------------------------------------- claims
\* A step that is an operation of the wrapper (not the caller's Consume).
Stepped == last'.par # last.par

\* The image differs from the snapshot in width, height or pixel format.
Mismatch(image, p) ==
    \/ image.w # p.w
    \/ image.h # p.h
    \/ image.csp # p.csp

\* C1: a checked encode(pts, image) whose image differs from the snapshot in
\* width, height or pixel format panics before any native call: the call
\* makes no native call, leaves the engine as it was and returns no Data and
\* no Picture.
C1_MismatchPanicsBeforeNative ==
    [][(Stepped /\ last'.op = "encode" /\ Mismatch(last'.img, params))
        => /\ last'.res = "Panic"
           /\ last'.calls = <<>>
           /\ engine' = engine
           /\ last'.data = NoData /\ last'.pic = NoPts
           /\ out' = out /\ subs' = subs]_vars

\* The spec's scenario: an image of mismatched height (only) was refused.
C1_Witness ==
    /\ last.op = "encode"
    /\ last.res = "Panic"
    /\ last.img.h # params.h
    /\ last.img.w = params.w
    /\ last.img.csp = params.csp
    /\ delayed # <<>>

\* C2: on every lifecycle path the native handle has exactly one owner while
\* it is open, and x264_encoder_close runs exactly once: not before the owner
\* goes away, once when it does, and never a second time.
C2_OneOwnerOneClose ==
    /\ Cardinality(owners) <= 1
    /\ Cardinality(owners) + closeCount = 1
    /\ (last.op \in {"drop", "drop_flush"} <=> owners = {})

\* A Flush dropped while still Draining, after a drain step had failed.
C2_Witness ==
    /\ owners = {}
    /\ closeCount = 1
    /\ last.op = "drop_flush"
    /\ delayed # <<>>
    /\ "drain" \in errs

\* The frames submitted so far have strictly increasing timestamps.
Increasing(s) == \A i \in 1 .. Len(s) - 1 : s[i] < s[i + 1]

\* How many times p was submitted.
Times(p, s) == Cardinality({i \in 1 .. Len(s) : s[i] = p})

\* The drain has run to its end: next() has returned None.
Drained == flushed /\ exhausted

C4_NoneIffZeroAndIdempotent ==
    /\ last.op = "next" =>
        /\ (last.res = "None" <=> last.read = 0)
        /\ (last.res = "None" =>
                /\ delayed = <<>>
                /\ Len(last.calls) = 1)
        /\ (exhausted => last.res = "None")
    /\ exhausted => delayed = <<>>

\* None was returned after a drain that produced a frame.
C4_Witness ==
    /\ last.op = "next"
    /\ last.res = "None"
    /\ exhausted
    /\ \E p \in Pts : out[p] = 1

Produced ==
    /\ last.op \in {"encode", "encode_unchecked", "headers", "next"}
    /\ \E i \in 1 .. Len(last.calls) :
          last.calls[i].fn \in {"x264_encoder_encode", "x264_encoder_headers"}

\* C6: headers, encode, encode_unchecked and a next() that called the engine
\* return EncodeError exactly when the native status was negative, with no
\* Data and no Picture; for any other status they return Ok with the Data
\* (and the Picture) that this call wrote.
C6_ErrIffNegativeStatus ==
    Produced =>
        /\ (last.res = "Err" <=> last.status < 0)
        /\ (last.res = "Err" => last.data = NoData /\ last.pic = NoPts)
        /\ (last.status >= 0 =>
                /\ last.res = "Ok"
                /\ last.data = [len |-> last.nal]
                /\ (last.op # "headers" => last.pic = last.raw))

\* A drain step with status 0 (no bytes) came back as Ok.
C6_Witness ==
    /\ last.op = "next"
    /\ Produced
    /\ last.status = 0
    /\ last.res = "Ok"
    /\ last.data = [len |-> 0]

\* The native calls a Flush may make: the delayed-frame query, a submission
\* with a null picture, and the close of the teardown.
DrainCall(c) ==
    \/ c.fn \in {"x264_encoder_delayed_frames", "x264_encoder_close"}
    \/ c.fn = "x264_encoder_encode" /\ c.pic = NULL

\* C7: once flush() has been called the Encoder is gone for good: the only
\* operations are next() and the drop of the Flush, and the only native calls
\* the delayed-frame query, null-picture submissions and the teardown; no
\* frame is submitted, no headers are fetched, no intra refresh is requested.
C7_FlushIsOneWay ==
    [][/\ flushed' =>
            /\ "Encoder" \notin owners'
            /\ last'.op \in {"flush", "next", "drop_flush"}
            /\ \A i \in 1 .. Len(last'.calls) : DrainCall(last'.calls[i])
       /\ flushed => (flushed' /\ subs' = subs)]_vars

\* A drain step that submitted a null picture and got a frame out.
C7_Witness ==
    /\ flushed
    /\ last.op = "next"
    /\ Len(last.calls) = 2
    /\ last.calls[2] = Call("x264_encoder_encode", NULL)
    /\ last.res = "Ok"
    /\ last.data.len > 0

C9_SnapshotFixedQueriesPure ==
    [][/\ params' = params
       /\ (Stepped /\ last'.op \in {"width", "height", "encoding"}) =>
            /\ last'.op = "width" => last'.ret = params.w
            /\ last'.op = "height" => last'.ret = params.h
            /\ last'.op = "encoding" => last'.ret = params.csp
            /\ last'.calls = <<>>
            /\ engine' = engine
            /\ owners' = owners]_vars

\* width() asked after a submission had failed.
C9_Witness ==
    /\ last.op = "width"
    /\ last.ret = params.w
    /\ "submit" \in errs
    /\ refresh

\* The Flush is over: next() has returned None, or the Flush was dropped.
DrainOver == exhausted \/ owners = {}

OutputCalls(l) ==
    {i \in 1 .. Len(l.calls) :
        l.calls[i].fn \in {"x264_encoder_encode", "x264_encoder_headers"}}

\* C11: no operation retries.  encode, encode_unchecked, headers and next()
\* make at most one output-producing native call each; when it reports a
\* negative status the result is Err and the engine is where that one call
\* left it.
C11_NoRetry ==
    [][(Stepped /\ last'.op \in {"encode", "encode_unchecked", "headers",
                                 "next"}) =>
        /\ Cardinality(OutputCalls(last')) <= 1
        /\ (OutputCalls(last') # {} /\ last'.status < 0) => last'.res = "Err"
        /\ \A i \in OutputCalls(last') :
              last'.calls[i].fn = "x264_encoder_encode" =>
                  \E o \in EncodeOutcomes(delayed, stall, last'.calls[i].pic) :
                      /\ o.status = last'.status
                      /\ o.d = delayed'
                      /\ o.st = stall'
        /\ (OutputCalls(last') = {} \/ last'.op = "headers") =>
              (delayed' = delayed /\ stall' = stall)]_vars

\* A submission failed with a frame already buffered, and was not retried.
C11_Witness ==
    /\ last.op \in {"encode", "encode_unchecked"}
    /\ last.res = "Err"
    /\ last.status < 0
    /\ Len(last.calls) = 1
    /\ Len(subs) = 2
    /\ delayed # <<>>

\* C12: headers() on an Encoder to which no frame has been submitted yet
\* succeeds with a non-empty Data view whenever the engine reports a
\* non-negative status and a positive length.
C12_FreshHeadersNonEmpty ==
    (/\ last.op = "headers"
     /\ subs = <<>>
     /\ last.status >= 0
     /\ last.nal > 0)
        => /\ last.res = "Ok"
           /\ last.data.len = last.nal
           /\ last.data.len > 0

\* headers() as the first call on a new Encoder, answered with bytes.
C12_Witness ==
    /\ last.op = "headers"
    /\ last.par = 1
    /\ subs = <<>>
    /\ ~refresh
    /\ last.status > 0
    /\ last.res = "Ok"
    /\ last.data.len > 0

\* The state of a Flush, read off the engine's delayed-frame count.
FlushState(d) == IF Len(d) > 0 THEN "Draining" ELSE "Exhausted"

\* C13: a Flush is Draining while the delayed-frame count is above zero and
\* Exhausted otherwise, from its construction on.  Every next() first reads
\* the count: on zero it returns None and makes no submission call; otherwise
\* it makes exactly one submission call with a null picture and returns
\* Some(result).  An Exhausted Flush never becomes Draining again.
C13_FlushStateMachine ==
    [][/\ (Stepped /\ last'.op = "flush") =>
            (delayed' = delayed /\ last'.calls = <<>>)
       /\ (Stepped /\ last'.op = "next") =>
            /\ last'.read = Len(delayed)
            /\ last'.calls[1] = Call("x264_encoder_delayed_frames", NULL)
            /\ FlushState(delayed) = "Exhausted" =>
                  /\ last'.res = "None"
                  /\ Len(last'.calls) = 1
                  /\ engine' = engine
            /\ FlushState(delayed) = "Draining" =>
                  /\ last'.res \in {"Ok", "Err"}
                  /\ last'.calls = <<Call("x264_encoder_delayed_frames", NULL),
                                     Call("x264_encoder_encode", NULL)>>
       /\ (flushed /\ FlushState(delayed) = "Exhausted") =>
            FlushState(delayed') = "Exhausted"]_vars

\* The drain step that took the last frame out: Draining to Exhausted, with
\* None not yet returned.
C13_Witness ==
    /\ last.op = "next"
    /\ last.read > 0
    /\ last.res = "Ok"
    /\ last.data.len > 0
    /\ FlushState(delayed) = "Exhausted"
    /\ ~exhausted

\* What a submission of (pts, image) can come to: a call with its answer from
\* the engine, and a way for the wrapper to end.
Endings(pts, image) ==
    [a : Attempt(delayed, stall, PictureInit(pts, image)),
     res : {"Ok", "Err", "Panic"}]

\* The step made the native call of c, left the engine where c's answer puts
\* it, and returned c's result with the Data and Picture of that call.
EndsAs(c, name, pts, image) ==
    /\ last'.op = name /\ last'.pts = pts /\ last'.img = image
    /\ last'.calls = c.a.calls
    /\ last'.status = c.a.o.status
    /\ delayed' = c.a.o.d
    /\ stall' = c.a.o.st
    /\ refresh' = (refresh /\ c.a.o.status <= 0)
    /\ closeCount' = closeCount
    /\ owners' = owners /\ params' = params
    /\ last'.res = c.res
    /\ last'.data = (IF c.res = "Ok" THEN [len |-> c.a.o.len] ELSE NoData)
    /\ last'.pic = (IF c.res = "Ok" THEN c.a.o.raw ELSE NoPts)

\* C14: for an image that matches the snapshot, any timestamp and any engine
\* state, encode and encode_unchecked are equivalent: each of them can end
\* in exactly the ways the other can, with the same single native call, the
\* same engine state and the same result, and in no other way.
C14_CheckedEqualsUnchecked ==
    ("Encoder" \in owners /\ Len(subs) < MaxFrames) =>
        \A pts \in Pts, image \in Images :
            ~Mismatch(image, params) =>
                /\ ENABLED EncodeAt(pts, image)
                /\ ENABLED Submit("encode_unchecked", pts, image)
                /\ \A c \in Endings(pts, image) :
                      (ENABLED (EncodeAt(pts, image)
                                /\ EndsAs(c, "encode", pts, image)))
                      <=> (ENABLED (Submit("encode_unchecked", pts, image)
                                    /\ EndsAs(c, "encode_unchecked", pts, image)))
                /\ ~ENABLED (EncodeAt(pts, image)
                             /\ \A c \in Endings(pts, image) :
                                   ~EndsAs(c, "encode", pts, image))
                /\ ~ENABLED (Submit("encode_unchecked", pts, image)
                             /\ \A c \in Endings(pts, image) :
                                   ~EndsAs(c, "encode_unchecked", pts, image))

\* A checked encode of a matching image went through to the engine, which
\* already held a frame, and produced output.
C14_Witness ==
    /\ last.op = "encode"
    /\ ~Mismatch(last.img, params)
    /\ last.res = "Ok"
    /\ last.data.len > 0
    /\ Len(subs) = 2
    /\ Len(last.calls) = 1

\* C15: a native submission that reports a non-negative status and yields
\* no output bytes is a success: encode and encode_unchecked return Ok with
\* an empty Data, never Err, and a drain step of Flush::next returns
\* Some(Ok), never None.
C15_DeferredIsSuccess ==
    (/\ last.op \in {"encode", "encode_unchecked", "next"}
     /\ Len(last.calls) > 0
     /\ last.calls[Len(last.calls)].fn = "x264_encoder_encode"
     /\ last.status >= 0
     /\ last.nal = 0) =>
        /\ last.res = "Ok"
        /\ last.data = [len |-> 0]

\* An encode whose frame the engine kept back: status 0, nothing written,
\* one frame now buffered.
C15_Witness ==
    /\ last.op = "encode"
    /\ last.status = 0
    /\ last.nal = 0
    /\ Len(delayed) = 1
    /\ last.res = "Ok"

\* C16: an Encoder that was never flushed may be released in any state,
\* frames buffered or not; its teardown is the native close alone, with no
\* drain submission, the engine's buffer is left as it was, and from then
\* on nothing is produced to the caller.
C16_DropDiscardsDelayed ==
    [][/\ ("Encoder" \in owners => ENABLED DropEncoder)
       /\ (Stepped /\ last'.op = "drop") =>
             /\ "Encoder" \in owners
             /\ last'.calls = <<Call("x264_encoder_close", NULL)>>
             /\ delayed' = delayed
             /\ out' = out
             /\ owners' = {}
       /\ last.op = "drop" =>
             /\ ~Stepped
             /\ delayed' = delayed
             /\ out' = out]_vars

\* An Encoder released with a frame still buffered that was never produced.
C16_Witness ==
    /\ last.op = "drop"
    /\ ~flushed
    /\ Len(delayed) > 0
    /\ \A i \in 1 .. Len(delayed) : out[delayed[i]] = 0
    /\ closeCount = 1
    /\ views = {}

\* C17: no use after close.  Once x264_encoder_close has run for the handle,
\* no operation issues a native call on it again, a second close included:
\* nothing owns the handle, the engine is never touched and no wrapper
\* operation runs, whether the Encoder was dropped directly or inside a Flush.
C17_NoUseAfterClose ==
    [][closeCount > 0 =>
          /\ owners = {}
          /\ ~Stepped
          /\ last'.calls = last.calls
          /\ engine' = engine]_vars

\* The handle was closed by the teardown of a Flush that had been drained to
\* the end.
C17_Witness ==
    /\ closeCount = 1
    /\ owners = {}
    /\ last.op = "drop_flush"
    /\ exhausted
    /\ Len(subs) > 0

\* C18: an error result changes no wrapper-side state.  The step that
\* returns Err leaves the owner of the handle, the handle (still open) and
\* the snapshot as they were and does not mark a Flush as finished; in the
\* state after it every operation of the owner is still allowed; and the
\* operation that follows is attempted against the engine again: a
\* submission or headers makes its native call, and Flush::next reads the
\* delayed-frame count and, if it is not zero, submits a drain call and
\* returns Some.
C18_ErrorNotLatched ==
    [][/\ (Stepped /\ last'.res = "Err") =>
             /\ last'.op \in {"encode", "encode_unchecked", "headers", "next"}
             /\ owners' = owners
             /\ params' = params
             /\ closeCount' = closeCount
             /\ flushed' = flushed
             /\ exhausted' = exhausted
       /\ (last.res = "Err" /\ "Encoder" \in owners) =>
             /\ ENABLED Headers /\ ENABLED IntraRefresh
             /\ ENABLED GetWidth /\ ENABLED GetHeight /\ ENABLED GetEncoding
             /\ ENABLED Flush /\ ENABLED DropEncoder
             /\ Len(subs) < MaxFrames =>
                   ENABLED Encode /\ ENABLED EncodeUnchecked
       /\ (last.res = "Err" /\ "Flush" \in owners) =>
             ENABLED FlushNext /\ ENABLED DropFlush
       /\ (last.res = "Err" /\ Stepped) =>
             /\ last'.op \in {"encode_unchecked", "headers"} =>
                   Len(last'.calls) = 1
             /\ last'.op = "encode" =>
                   (Len(last'.calls) = 1 <=> ~Mismatch(last'.img, params))
             /\ last'.op = "next" =>
                   /\ last'.calls[1] = Call("x264_encoder_delayed_frames", NULL)
                   /\ delayed # <<>> =>
                         /\ Len(last'.calls) = 2
                         /\ last'.calls[2] = Call("x264_encoder_encode", NULL)
                         /\ last'.res \in {"Ok", "Err"}]_vars

\* A drain step that produced a frame after an earlier drain step had failed.
C18_Witness ==
    /\ last.op = "next"
    /\ last.res = "Ok"
    /\ last.data.len > 0
    /\ "drain" \in errs
    /\ ~exhausted
    /\ "Flush" \in owners

\* C19: timestamps pass through unchecked and unreordered.  Every encode
\* or encode_unchecked that reaches the engine hands it one input picture
\* carrying exactly the caller's pts and the caller's image; encode panics
\* only over the image, never over the pts; and a pts lower than or equal
\* to that of an earlier submission is not rejected: the call can be made
\* and can succeed like any other.
C19_PtsPassedThrough ==
    /\ (last.op \in {"encode", "encode_unchecked"} /\ last.res # "Panic") =>
          /\ last.calls = <<Call("x264_encoder_encode",
                                 [pts |-> last.pts, img |-> last.img])>>
          /\ subs # <<>> /\ subs[Len(subs)] = last.pts
    /\ (last.op = "encode" /\ last.res = "Panic") =>
          Mismatch(last.img, params)
    /\ ("Encoder" \in owners /\ subs # <<>> /\ Len(subs) < MaxFrames) =>
          \A pts \in Pts :
              pts <= subs[Len(subs)] =>
                  \A image \in Images :
                      ~Mismatch(image, params) =>
                          /\ ENABLED (EncodeAt(pts, image)
                                      /\ last'.res = "Ok")
                          /\ ENABLED (Submit("encode_unchecked", pts, image)
                                      /\ last'.res = "Ok")
                          /\ ~ENABLED (EncodeAt(pts, image)
                                       /\ last'.res = "Panic")

\* A submission with a timestamp lower than the one before it went through
\* to the engine and succeeded.
C19_Witness ==
    /\ Len(subs) = 2
    /\ subs[2] < subs[1]
    /\ last.op = "encode"
    /\ last.res = "Ok"
    /\ last.calls[1].pic.pts = subs[2]

====
